---------------------------- MODULE Spec2Model ----------------------------
(***************************************************************************)
(* Model of the lexical front end of the SQL formatter:                    *)
(*   - src/src/lexer/tokenizer.ts : Tokenizer (rule table + moo lexer)     *)
(*   - src/src/formatter/Params.ts: Params (placeholder value resolver)    *)
(*                                                                         *)
(* Text is a sequence of one-character strings; offsets are 0-based as in  *)
(* JavaScript, so the character at offset i of s is s[i + 1].              *)
(*                                                                         *)
(* The lexer is moo's: moo.compile joins the patterns of LEXER_OPTIONS, in *)
(* key order, into one RegExp with the flags y, m and u, and next() takes  *)
(* the first alternative that matches at the cursor; with no error rule in *)
(* the table, next() throws where none matches.  The pattern factories of  *)
(* core/mooRegexFactory (lineCommentRegex, operatorRegex, placeholderRegex,*)
(* reservedWordRegex, stringRegex, wordRegex) are modelled from the        *)
(* specification's description of their patterns.                          *)
(***************************************************************************)
EXTENDS Integers, Sequences, FiniteSets

VARIABLES
    cfg,        \* TokenizerOptions the Tokenizer was constructed with
    input,      \* the argument of the pending / current tokenize(input) call
    buffer,     \* the text LEXER was last reset to
    lexIndex,   \* LEXER's cursor into buffer
    tokens,     \* tokens Array.from has collected so far in this call
    status,     \* "idle" | "scanning" | "done" | "error" (tokenize threw)
    result,     \* what the last finished tokenize call returned to its caller
    params,     \* Params.params
    index,      \* Params.index
    calls,      \* number of Params.get calls made so far
    last,       \* the last Params.get call: argument, cursor before, result
    keyless     \* TRUE while every get call so far carried no key at all

lexVars == <<cfg, input, buffer, lexIndex, tokens, status, result>>
paramVars == <<params, index, calls, last, keyless>>
vars == <<cfg, input, buffer, lexIndex, tokens, status, result,
          params, index, calls, last, keyless>>

(***************************************************************************)
(* Bounds of the model.                                                    *)
(***************************************************************************)
MaxLen == 3         \* longest input of the general specification
MaxNumLen == 4      \* longest input of the number-literal specification
MaxCommentLen == 5  \* longest input of the block-comment specification
MaxPlaceholderLen == 3  \* longest input of the placeholder specification
MaxCaseLen == 5     \* longest input of the CASE / END specification
MaxSeq == 2         \* longest ordered ParamSource
MaxCalls == 4       \* most Params.get calls in one pass

(***************************************************************************)
(* Characters and character classes of the regular expressions.            *)
(***************************************************************************)
LowerLetters == <<"a","b","c","d","e","f","g","h","i","j","k","l","m",
                  "n","o","p","q","r","s","t","u","v","w","x","y","z">>
UpperLetters == <<"A","B","C","D","E","F","G","H","I","J","K","L","M",
                  "N","O","P","Q","R","S","T","U","V","W","X","Y","Z">>
Range(f) == {f[k] : k \in DOMAIN f}
Letter == Range(LowerLetters) \cup Range(UpperLetters)
Digit == {"0","1","2","3","4","5","6","7","8","9"}
HexDigit == Digit \cup {"a","b","c","d","e","f","A","B","C","D","E","F"}
BinDigit == {"0","1"}
\* \w of a RegExp without the i flag: [A-Za-z0-9_]
WordChar == Letter \cup Digit \cup {"_"}
\* \s of the characters the model writes
WhiteSpace == {" ", "\t", "\n", "\r"}
\* LineTerminator of ECMAScript (U+2028 and U+2029 are not written here)
LineTerminator == {"\n", "\r"}

\* the grave accent U+0060, which a TLA+ string cannot hold
BackQuote == "U+0060"

\* String.prototype.toLowerCase on one character
LowerOf == [k \in DOMAIN UpperLetters |-> LowerLetters[k]]
UpperIndex == [c \in Range(UpperLetters) |->
                  CHOOSE k \in DOMAIN UpperLetters : UpperLetters[k] = c]
ToLower(c) == IF c \in DOMAIN UpperIndex THEN LowerOf[UpperIndex[c]] ELSE c

\* the character at offset i of s, or "" at and past the end of s
At(s, i) == IF i < Len(s) THEN s[i + 1] ELSE ""

\* s.slice(i, j)
Slice(s, i, j) == IF j > i THEN SubSeq(s, i + 1, j) ELSE <<>>

\* the offset where the maximal run of characters of C that starts at i ends
RECURSIVE RunEnd(_, _, _)
RunEnd(s, i, C) == IF At(s, i) \in C THEN RunEnd(s, i + 1, C) ELSE i

\* whether literal p (a sequence of characters) stands at offset i of s
StartsWith(s, i, p) ==
    /\ i + Len(p) <= Len(s)
    /\ \A k \in 1..Len(p) : s[i + k] = p[k]

\* the same, ignoring letter case
StartsWithNoCase(s, i, p) ==
    /\ i + Len(p) <= Len(s)
    /\ \A k \in 1..Len(p) : ToLower(s[i + k]) = ToLower(p[k])

\* ^ of the combined RegExp, which moo compiles with the flags y, m and u:
\* the start of the text or the offset right after a line terminator
LineStart(s, i) == i = 0 \/ At(s, i - 1) \in LineTerminator

\* $ under the m flag: the end of the text or the offset of a line terminator
LineEnd(s, i) == i >= Len(s) \/ At(s, i) \in LineTerminator

\* \b right after a matched word character: no word character follows
WordBoundaryAfter(s, i) == At(s, i) \notin WordChar

\* the result of a pattern that does not match at the offset tried
NoMatch == -1

\* an alternation of literals, tried in list order, at offset i: the offset
\* where the first one standing there ends
FirstLiteral(s, i, ps) ==
    LET hits == {k \in DOMAIN ps : StartsWith(s, i, ps[k])}
    IN  IF hits = {} THEN NoMatch
        ELSE i + Len(ps[CHOOSE k \in hits : \A m \in hits : k <= m])

(***************************************************************************)
(* Dialect configurations the Tokenizer is constructed with.  A word, a    *)
(* prefix or an operator is a sequence of characters.                      *)
(***************************************************************************)
StandardSqlCfg ==
    [ reservedCommands          |-> << <<"a","d","d">> >>,
      reservedBinaryCommands    |-> << <<"u","n","i","o","n">> >>,
      reservedDependentClauses  |-> << <<"o","n">> >>,
      reservedLogicalOperators  |-> << <<"a","n","d">>, <<"o","r">> >>,
      reservedKeywords          |-> << <<"a","s">>, <<"a","s","c">>, <<"n","o">> >>,
      stringTypes               |-> << "''" >>,
      indexedPlaceholderTypes   |-> << <<"?">> >>,
      namedPlaceholderTypes     |-> << <<"@">>, <<":">> >>,
      lineCommentTypes          |-> << <<"-","-">> >>,
      specialWordChars          |-> [prefix |-> {}, any |-> {}, suffix |-> {}],
      operators                 |-> << >> ]

DollarCfg ==
    [ reservedCommands          |-> << <<"a","d","d">> >>,
      reservedBinaryCommands    |-> << >>,
      reservedDependentClauses  |-> << <<"o","n">> >>,
      reservedLogicalOperators  |-> << <<"a","n","d">>, <<"o","r">> >>,
      reservedKeywords          |-> << <<"a","s">>, <<"e","n","d">> >>,
      stringTypes               |-> << "''", "\"\"" >>,
      indexedPlaceholderTypes   |-> << >>,
      namedPlaceholderTypes     |-> << <<"$">> >>,
      lineCommentTypes          |-> << <<"#">>, <<"-","-">> >>,
      specialWordChars          |-> [prefix |-> {}, any |-> {"@"}, suffix |-> {}],
      operators                 |-> << <<"|","|">>, <<":","=">> >> ]

Configs == {StandardSqlCfg, DollarCfg}

\* Object.values(cfg.specialWordChars ?? {}).join('')
specialWordCharsAll(c) ==
    c.specialWordChars.prefix \cup c.specialWordChars.any
        \cup c.specialWordChars.suffix

(***************************************************************************)
(* The patterns of LEXER_OPTIONS.  Each operator gives the offset where    *)
(* the pattern's match starting at offset i of s ends, or NoMatch.         *)
(***************************************************************************)
\* WS: /[ \t]+/
WSMatch(s, i) ==
    LET e == RunEnd(s, i, {" ", "\t"}) IN IF e > i THEN e ELSE NoMatch

\* NL: /\n/
NLMatch(s, i) == IF At(s, i) = "\n" THEN i + 1 ELSE NoMatch

\* [^]*?(?:\*\/|$) from offset k on: lazily to the first closer or line end
RECURSIVE BlockCommentEnd(_, _)
BlockCommentEnd(s, k) ==
    IF StartsWith(s, k, <<"*", "/">>) THEN k + 2
    ELSE IF LineEnd(s, k) THEN k
    ELSE BlockCommentEnd(s, k + 1)

\* BLOCK_COMMENT: /^(?:\/\*[^]*?(?:\*\/|$))/u
BlockCommentMatch(s, i) ==
    IF LineStart(s, i) /\ StartsWith(s, i, <<"/", "*">>)
    THEN BlockCommentEnd(s, i + 2)
    ELSE NoMatch

\* the offset of the first line terminator at or after k, or the end of s
RECURSIVE RestOfLine(_, _)
RestOfLine(s, k) ==
    IF k >= Len(s) \/ At(s, k) \in LineTerminator THEN k
    ELSE RestOfLine(s, k + 1)

\* lineCommentRegex(types): one of the prefixes, then up to (not including)
\* the next newline or the end of the input
lineCommentRegex(types, s, i) ==
    LET p == FirstLiteral(s, i, types)
    IN  IF p = NoMatch THEN NoMatch ELSE RestOfLine(s, p)

\* a rule that matches exactly the one character ch
CharMatch(ch, s, i) == IF At(s, i) = ch THEN i + 1 ELSE NoMatch

\* the first argument of operatorRegex, one character each
MonadOperators ==
    {"+", "-", "/", "*", "%", "&", "|", "^", ">", "<", "=", ".", ";",
     "{", "}", BackQuote, ":", "$"}

\* the second argument of operatorRegex: the four fixed operators, then
\* cfg.operators
PolyadOperators(c) ==
    << <<"<", ">">>, <<"<", "=">>, <<">", "=">>, <<"!", "=">> >> \o c.operators

\* operatorRegex(monads, polyads): the multi-character operators are tried
\* before the single-character fallback
operatorRegex(monads, polyads, s, i) ==
    LET p == FirstLiteral(s, i, polyads)
    IN  IF p # NoMatch THEN p
        ELSE IF At(s, i) \in monads THEN i + 1
        ELSE NoMatch



\* the offset after (?:\.[0-9]+)? tried at offset k
FractionEnd(s, k) ==
    IF At(s, k) = "." /\ At(s, k + 1) \in Digit
    THEN RunEnd(s, k + 1, Digit)
    ELSE k

\* the offset after (?:[eE][-+]?[0-9]+(?:\.[0-9]+)?)? tried at offset k, the
\* decimal part of the exponent left out
ExponentEnd(s, k) ==
    LET d == IF At(s, k + 1) \in {"-", "+"} THEN k + 2 ELSE k + 1
    IN  IF At(s, k) \in {"e", "E"} /\ At(s, d) \in Digit
        THEN RunEnd(s, d, Digit)
        ELSE k

\* (?:-\s*)?[0-9]+(?:\.[0-9]+)?(?:[eE][-+]?[0-9]+(?:\.[0-9]+)?)? followed by
\* \b: the ends the greedy match can give up to, longest first; a digit run
\* cut short is followed by a digit, where \b cannot hold
DecimalMatch(s, i) ==
    LET j == IF At(s, i) = "-" THEN RunEnd(s, i + 1, WhiteSpace) ELSE i
        a == RunEnd(s, j, Digit)
        b == FractionEnd(s, a)
        c == ExponentEnd(s, b)
        d == IF c > b THEN FractionEnd(s, c) ELSE c
        ends == <<d, c, b, a>>
        ok == {k \in DOMAIN ends : WordBoundaryAfter(s, ends[k])}
    IN  IF a = j \/ ok = {} THEN NoMatch
        ELSE ends[CHOOSE k \in ok : \A m \in ok : k <= m]

\* 0x[0-9a-fA-F]+ followed by \b
HexMatch(s, i) ==
    LET e == RunEnd(s, i + 2, HexDigit)
    IN  IF StartsWith(s, i, <<"0", "x">>) /\ e > i + 2 /\ WordBoundaryAfter(s, e)
        THEN e ELSE NoMatch

\* 0b[01]+ followed by \b
BinaryMatch(s, i) ==
    LET e == RunEnd(s, i + 2, BinDigit)
    IN  IF StartsWith(s, i, <<"0", "b">>) /\ e > i + 2 /\ WordBoundaryAfter(s, e)
        THEN e ELSE NoMatch

\* NUMBER: /^(?:decimal|0x[0-9a-fA-F]+|0b[01]+)\b/u, the alternatives in order
NumberMatch(s, i) ==
    IF ~LineStart(s, i) THEN NoMatch
    ELSE IF DecimalMatch(s, i) # NoMatch THEN DecimalMatch(s, i)
    ELSE IF HexMatch(s, i) # NoMatch THEN HexMatch(s, i)
    ELSE BinaryMatch(s, i)

\* CASE_START: /[Cc][Aa][Ss][Ee]/u
CaseStartMatch(s, i) ==
    IF StartsWithNoCase(s, i, <<"c", "a", "s", "e">>) THEN i + 4 ELSE NoMatch

\* CASE_END: /[Ee][Nn][Dd]/u
CaseEndMatch(s, i) ==
    IF StartsWithNoCase(s, i, <<"e", "n", "d">>) THEN i + 3 ELSE NoMatch

\* reservedWordRegex(words, specialWordChars): one of the words, ignoring
\* letter case, as a whole word: neither a word character nor one of the
\* special word characters follows it; the longest such word is taken
reservedWordRegex(words, special, s, i) ==
    LET hits == {k \in DOMAIN words :
                    /\ StartsWithNoCase(s, i, words[k])
                    /\ At(s, i + Len(words[k])) \notin (WordChar \cup special)}
    IN  IF hits = {} THEN NoMatch
        ELSE i + Len(words[CHOOSE k \in hits :
                              \A m \in hits : Len(words[m]) <= Len(words[k])])

\* the quote character of a string type
QuoteOf(type) == IF type = "''" THEN "'" ELSE "\""

\* the body of a quoted string from offset k on: a backslash escapes the
\* character after it, the first quote not escaped closes the string
RECURSIVE StringClose(_, _, _)
StringClose(s, k, q) ==
    IF k >= Len(s) THEN NoMatch
    ELSE IF At(s, k) = "\\" /\ k + 1 < Len(s) THEN StringClose(s, k + 2, q)
    ELSE IF At(s, k) = q THEN k + 1
    ELSE StringClose(s, k + 1, q)

\* stringRegex({ stringTypes }): a string literal of one of the quoting styles
stringRegex(types, s, i) ==
    LET hits == {k \in DOMAIN types : At(s, i) = QuoteOf(types[k])}
    IN  IF hits = {} THEN NoMatch
        ELSE StringClose(s, i + 1, QuoteOf(types[CHOOSE k \in hits : TRUE]))

\* the characters of [a-zA-Z0-9._$]
NamedSuffixChars == Letter \cup Digit \cup {".", "_", "$"}

\* the second argument of placeholderRegex, tried at offset j: '[0-9]*' of
\* the indexed placeholders, '[a-zA-Z0-9._$]+' of the named ones, or the
\* source of the string pattern
IndexedPattern == [kind |-> "indexed", types |-> << >>]
NamedPattern == [kind |-> "named", types |-> << >>]
StringPattern(types) == [kind |-> "string", types |-> types]
PatternEnd(pattern, s, j) ==
    CASE pattern.kind = "indexed" -> RunEnd(s, j, Digit)
      [] pattern.kind = "named" ->
            IF RunEnd(s, j, NamedSuffixChars) > j
            THEN RunEnd(s, j, NamedSuffixChars) ELSE NoMatch
      [] pattern.kind = "string" -> stringRegex(pattern.types, s, j)

\* placeholderRegex(types, pattern): one of the prefixes, then the pattern
placeholderRegex(types, pattern, s, i) ==
    LET hits == {k \in DOMAIN types :
                    /\ StartsWith(s, i, types[k])
                    /\ PatternEnd(pattern, s, i + Len(types[k])) # NoMatch}
    IN  IF hits = {} THEN NoMatch
        ELSE PatternEnd(pattern, s,
                        i + Len(types[CHOOSE k \in hits : \A m \in hits : k <= m]))

\* wordRegex(specialWordChars): a run of word characters and of the special
\* characters allowed anywhere, after any prefix characters and before any
\* suffix characters
wordRegex(special, s, i) ==
    LET j == RunEnd(s, i, special.prefix)
        k == RunEnd(s, j, WordChar \cup special.any)
    IN  IF k > j THEN RunEnd(s, k, special.suffix) ELSE NoMatch

(***************************************************************************)
(* The rule table: the keys of LEXER_OPTIONS in the order they are written,*)
(* which is the order of the alternatives of the RegExp moo compiles.      *)
(***************************************************************************)
RuleOrder ==
    <<"WS", "NL", "BLOCK_COMMENT", "LINE_COMMENT", "COMMA", "OPEN_PAREN",
      "CLOSE_PAREN", "OPEN_BRACKET", "CLOSE_BRACKET", "OPERATOR", "NUMBER",
      "CASE_START", "CASE_END", "RESERVED_COMMAND", "RESERVED_BINARY_COMMAND",
      "RESERVED_DEPENDENT_CLAUSE", "RESERVED_LOGICAL_OPERATOR",
      "RESERVED_KEYWORD", "INDEXED_PLACEHOLDER", "NAMED_PLACEHOLDER",
      "STRING_PLACEHOLDER", "STRING", "WORD">>

\* where rule's pattern, built from configuration c, ends when tried at
\* offset i of s, or NoMatch
RuleMatch(rule, c, s, i) ==
    CASE rule = "WS" -> WSMatch(s, i)
      [] rule = "NL" -> NLMatch(s, i)
      [] rule = "BLOCK_COMMENT" -> BlockCommentMatch(s, i)
      [] rule = "LINE_COMMENT" -> lineCommentRegex(c.lineCommentTypes, s, i)
      [] rule = "COMMA" -> CharMatch(",", s, i)
      [] rule = "OPEN_PAREN" -> CharMatch("(", s, i)
      [] rule = "CLOSE_PAREN" -> CharMatch(")", s, i)
      [] rule = "OPEN_BRACKET" -> CharMatch("[", s, i)
      [] rule = "CLOSE_BRACKET" -> CharMatch("]", s, i)
      [] rule = "OPERATOR" ->
            operatorRegex(MonadOperators, PolyadOperators(c), s, i)
      [] rule = "NUMBER" -> NumberMatch(s, i)
      [] rule = "CASE_START" -> CaseStartMatch(s, i)
      [] rule = "CASE_END" -> CaseEndMatch(s, i)
      [] rule = "RESERVED_COMMAND" ->
            reservedWordRegex(c.reservedCommands, specialWordCharsAll(c), s, i)
      [] rule = "RESERVED_BINARY_COMMAND" ->
            reservedWordRegex(c.reservedBinaryCommands, specialWordCharsAll(c), s, i)
      [] rule = "RESERVED_DEPENDENT_CLAUSE" ->
            reservedWordRegex(c.reservedDependentClauses, specialWordCharsAll(c), s, i)
      [] rule = "RESERVED_LOGICAL_OPERATOR" ->
            reservedWordRegex(c.reservedLogicalOperators, specialWordCharsAll(c), s, i)
      [] rule = "RESERVED_KEYWORD" ->
            reservedWordRegex(c.reservedKeywords, specialWordCharsAll(c), s, i)
      [] rule = "INDEXED_PLACEHOLDER" ->
            placeholderRegex(c.indexedPlaceholderTypes, IndexedPattern, s, i)
      [] rule = "NAMED_PLACEHOLDER" ->
            placeholderRegex(c.namedPlaceholderTypes, NamedPattern, s, i)
      [] rule = "STRING_PLACEHOLDER" ->
            placeholderRegex(c.namedPlaceholderTypes,
                             StringPattern(c.stringTypes), s, i)
      [] rule = "STRING" -> stringRegex(c.stringTypes, s, i)
      [] rule = "WORD" -> wordRegex(c.specialWordChars, s, i)

\* regex.match of a rule: placeholderRegex gives no pattern for an empty
\* list of prefixes
HasPattern(rule, c) ==
    CASE rule = "INDEXED_PLACEHOLDER" -> c.indexedPlaceholderTypes # << >>
      [] rule \in {"NAMED_PLACEHOLDER", "STRING_PLACEHOLDER"} ->
            c.namedPlaceholderTypes # << >>
      [] OTHER -> TRUE

\* this.LEXER_OPTIONS after the reduce: the rules that have a pattern, their
\* order kept
LEXER_OPTIONS(c) == SelectSeq(RuleOrder, LAMBDA rule : HasPattern(rule, c))

\* the token moo emits for a match of rule from offset i to offset e
Token(rule, s, i, e) == [type |-> rule, text |-> Slice(s, i, e), offset |-> i]

\* no token: no alternative of the compiled RegExp matches at the cursor
NoToken == [type |-> "", text |-> << >>, offset |-> 0]

\* the match of moo's compiled RegExp at offset i: the alternatives are the
\* rules from the k-th on, tried in table order, and the first that matches
\* gives the token
RECURSIVE FirstMatch(_, _, _, _, _)
FirstMatch(rules, k, c, s, i) ==
    IF k > Len(rules) THEN NoToken
    ELSE LET e == RuleMatch(rules[k], c, s, i)
         IN  IF e # NoMatch THEN Token(rules[k], s, i, e)
             ELSE FirstMatch(rules, k + 1, c, s, i)

\* LEXER.next() at offset i of s, for the lexer compiled from configuration c
NextToken(c, s, i) == FirstMatch(LEXER_OPTIONS(c), 1, c, s, i)

(***************************************************************************)
(* Tokenizer.tokenize: LEXER.reset(input), then Array.from(LEXER) calls    *)
(* the lexer's next() until it reports the end of the input.               *)
(***************************************************************************)
\* this.LEXER.reset(input)
Tokenize ==
    /\ status # "scanning"
    /\ buffer' = input
    /\ lexIndex' = 0
    /\ tokens' = << >>
    /\ result' = << >>
    /\ status' = "scanning"
    /\ UNCHANGED <<cfg, input>>
    /\ UNCHANGED paramVars

\* LexEmit with a plausible bug: white space is skipped instead of collected
LexEmitSkipWS ==
    /\ status = "scanning"
    /\ lexIndex < Len(buffer)
    /\ LET tok == NextToken(cfg, buffer, lexIndex)
       IN  /\ tok # NoToken
           /\ tokens' = IF tok.type \in {"WS", "NL"} THEN tokens
                         ELSE Append(tokens, tok)
           /\ lexIndex' = lexIndex + Len(tok.text)
    /\ UNCHANGED <<cfg, input, buffer, status, result>>
    /\ UNCHANGED paramVars

\* next() with a rule matching at the cursor: the token is collected and the
\* cursor moves past the match
LexEmit ==
    /\ status = "scanning"
    /\ lexIndex < Len(buffer)
    /\ LET tok == NextToken(cfg, buffer, lexIndex)
       IN  /\ tok # NoToken
           /\ tokens' = Append(tokens, tok)
           /\ lexIndex' = lexIndex + Len(tok.text)
    /\ UNCHANGED <<cfg, input, buffer, status, result>>
    /\ UNCHANGED paramVars

\* next() at the end of the buffer: Array.from returns the collected tokens
LexEof ==
    /\ status = "scanning"
    /\ lexIndex = Len(buffer)
    /\ status' = "done"
    /\ result' = tokens
    /\ UNCHANGED <<cfg, input, buffer, lexIndex, tokens>>
    /\ UNCHANGED paramVars

\* LexThrow with an error rule that ends the sequence instead of throwing
LexStopQuietly ==
    /\ status = "scanning"
    /\ lexIndex < Len(buffer)
    /\ NextToken(cfg, buffer, lexIndex) = NoToken
    /\ status' = "done"
    /\ result' = tokens
    /\ UNCHANGED <<cfg, input, buffer, lexIndex, tokens>>
    /\ UNCHANGED paramVars

\* next() with no rule matching at the cursor: LEXER_OPTIONS holds no error
\* rule, so moo throws "invalid syntax" and tokenize returns nothing
LexThrow ==
    /\ status = "scanning"
    /\ lexIndex < Len(buffer)
    /\ NextToken(cfg, buffer, lexIndex) = NoToken
    /\ status' = "error"
    /\ result' = << >>
    /\ UNCHANGED <<cfg, input, buffer, lexIndex, tokens>>
    /\ UNCHANGED paramVars

LexNext ==
    \/ Tokenize
    \/ LexEmit
    \/ LexEof
    \/ LexThrow

(***************************************************************************)
(* Params: the placeholder value resolver.                                 *)
(***************************************************************************)
\* the JavaScript value undefined, as a result of get
Undefined == "<undefined>"
\* the key of a get call made without one (key is undefined)
NoKey == "<no key>"

\* the values a ParamSource holds, and the property names a mapping may hold
Values == {"x", "y"}
Keys == {"foo", "bar", "0", "1"}
\* the keys get is called with: a name, the empty string, or none
KeyArgs == Keys \cup {"", NoKey}
\* the placeholder texts get is called with
Texts == {"?", ":foo"}

\* String(n) for a cursor value n
Decimal == <<"0", "1", "2", "3", "4", "5", "6", "7", "8", "9">>
PropertyName(n) == Decimal[n + 1]

\* params: ParamItems | string[] | undefined.  A mapping is a function on Keys
\* that gives Undefined for the names it does not hold.
NoParams == [kind |-> "none", list |-> << >>, map |-> [k \in Keys |-> Undefined]]
ArrayParams(v) == [kind |-> "array", list |-> v, map |-> [k \in Keys |-> Undefined]]
ObjectParams(m) == [kind |-> "object", list |-> << >>, map |-> m]
ParamSources ==
    {NoParams}
      \cup {ArrayParams(v) : v \in UNION {[1..n -> Values] : n \in 0..MaxSeq}}
      \cup {ObjectParams(m) : m \in [Keys -> Values \cup {Undefined}]}

\* whether a mapping holds the property name
HasKey(p, name) == name \in Keys /\ p.map[name] # Undefined

\* p[name]: the property of the ParamSource p under the name given (of an
\* array, the element whose index the name spells; the names length and those
\* the prototypes define are not among Keys)
Property(p, name) ==
    IF p.kind = "array"
    THEN IF \E n \in 0..(Len(p.list) - 1) : PropertyName(n) = name
         THEN p.list[(CHOOSE n \in 0..(Len(p.list) - 1) : PropertyName(n) = name) + 1]
         ELSE Undefined
    ELSE IF HasKey(p, name) THEN p.map[name] ELSE Undefined

\* if (key): a key that is undefined or the empty string is falsy
Truthy(key) == key # NoKey /\ key # ""

\* get with a plausible bug: the cursor is read but never advanced
getNoAdvance(p, idx, key, text) ==
    IF p.kind = "none" THEN [ret |-> text, index |-> idx]
    ELSE IF Truthy(key) THEN [ret |-> Property(p, key), index |-> idx]
    ELSE [ret |-> Property(p, PropertyName(idx)), index |-> idx]

\* get with a plausible bug: a key the ParamSource does not hold falls back
\* to the placeholder's text
getTextForMissingKey(p, idx, key, text) ==
    IF p.kind = "none" THEN [ret |-> text, index |-> idx]
    ELSE IF Truthy(key)
         THEN [ret |-> IF Property(p, key) = Undefined THEN text
                       ELSE Property(p, key),
               index |-> idx]
    ELSE [ret |-> Property(p, PropertyName(idx)), index |-> idx + 1]

\* get with the key ignored on an ordered sequence
getSequencePositional(p, idx, key, text) ==
    IF p.kind = "none" THEN [ret |-> text, index |-> idx]
    ELSE IF Truthy(key) /\ p.kind = "object"
         THEN [ret |-> Property(p, key), index |-> idx]
    ELSE [ret |-> Property(p, PropertyName(idx)), index |-> idx + 1]

\* get with a plausible bug: the cursor advances on a lookup without a key
\* even when there is no ParamSource
getAdvanceWithoutParams(p, idx, key, text) ==
    IF p.kind = "none"
    THEN [ret |-> text, index |-> IF Truthy(key) THEN idx ELSE idx + 1]
    ELSE IF Truthy(key) THEN [ret |-> Property(p, key), index |-> idx]
    ELSE [ret |-> Property(p, PropertyName(idx)), index |-> idx + 1]

\* Params.get({ key, text }) with the cursor at idx: the value returned and
\* the cursor afterwards
get(p, idx, key, text) ==
    IF p.kind = "none" THEN [ret |-> text, index |-> idx]
    ELSE IF Truthy(key) THEN [ret |-> Property(p, key), index |-> idx]
    ELSE [ret |-> Property(p, PropertyName(idx)), index |-> idx + 1]

\* one call of get by the formatter
Get(key, text) ==
    /\ calls < MaxCalls
    /\ LET r == get(params, index, key, text)
       IN  /\ index' = r.index
           /\ last' = [key |-> key, text |-> text, at |-> index, ret |-> r.ret]
    /\ calls' = calls + 1
    /\ keyless' = (keyless /\ key = NoKey)
    /\ UNCHANGED params
    /\ UNCHANGED lexVars

ParamsNext == \E key \in KeyArgs, text \in Texts : Get(key, text)

\* new Params(params)
ParamsNew(sources) ==
    /\ params \in sources
    /\ index = 0
    /\ calls = 0
    /\ last = [key |-> NoKey, text |-> "", at |-> 0, ret |-> Undefined]
    /\ keyless = TRUE

\* a Params that is never queried
ParamsIdle == ParamsNew({NoParams})

\* every text of at most n characters of alphabet A
TextsUpTo(A, n) == UNION {[1..k -> A] : k \in 0..n}

\* The characters the inputs are written with.  Each alphabet holds a
\* character no rule matches ("!", or "@" where it is no placeholder prefix).
\* words, a reserved word, a number, white space, comments, a string
GeneralAlphabet == {"a", "s", "1", " ", "\n", "-", "'", "!", "/", "*"}
\* decimal, exponent, hexadecimal and binary literals, after white space too
NumberAlphabet == {"0", "1", ".", "e", "-", "x", "b", " ", "!"}
\* block comments, closed or not, at offset 0 and later, on one line or more
CommentAlphabet == {"/", "*", "a", " ", "\n", "!"}
\* the named-placeholder prefixes of the configurations and their suffixes
PlaceholderAlphabet == {":", "$", "@", "a", "1", ".", " "}
\* CASE and END, in mixed letter case, alone and at the start of identifiers
CaseAlphabet == {"c", "a", "s", "e", "n", "D", "!"}

\* new Tokenizer(cfg), and the text a caller is about to pass to tokenize
LexInit(texts) ==
    /\ cfg \in Configs
    /\ input \in texts
    /\ buffer = << >>
    /\ lexIndex = 0
    /\ tokens = << >>
    /\ status = "idle"
    /\ result = << >>

\* The specifications of the Tokenizer differ in the inputs only.
Init == LexInit(TextsUpTo(GeneralAlphabet, MaxLen)) /\ ParamsIdle
Spec == Init /\ [][LexNext]_vars

NumberInit == LexInit(TextsUpTo(NumberAlphabet, MaxNumLen)) /\ ParamsIdle
NumberSpec == NumberInit /\ [][LexNext]_vars

CommentInit == LexInit(TextsUpTo(CommentAlphabet, MaxCommentLen)) /\ ParamsIdle
CommentSpec == CommentInit /\ [][LexNext]_vars

PlaceholderInit ==
    LexInit(TextsUpTo(PlaceholderAlphabet, MaxPlaceholderLen)) /\ ParamsIdle
PlaceholderSpec == PlaceholderInit /\ [][LexNext]_vars

CaseInit == LexInit(TextsUpTo(CaseAlphabet, MaxCaseLen)) /\ ParamsIdle
CaseSpec == CaseInit /\ [][LexNext]_vars

\* a Tokenizer that is never used
LexIdle == LexInit({<< >>}) /\ cfg = StandardSqlCfg

\* The specification of Params: any ParamSource, then any calls of get.
ParamsInit == ParamsNew(ParamSources) /\ LexIdle
ParamsSpec == ParamsInit /\ [][ParamsNext]_vars

(***************************************************************************)
(* Properties of Tokenizer.tokenize.                                       *)
(***************************************************************************)
\* the texts of a token sequence, concatenated in order
RECURSIVE Flatten(_)
Flatten(toks) ==
    IF toks = << >> THEN << >> ELSE Head(toks).text \o Flatten(Tail(toks))

\* a tokenize call has ended, by returning or by throwing
Finished == status \in {"done", "error"}

\* the cursor stands on a character at which no rule matches
NoRuleMatches ==
    lexIndex < Len(buffer) /\ NextToken(cfg, buffer, lexIndex) = NoToken

\* C1 as stated: for every input S and every configuration, the texts of the
\* tokens tokenize(S) gives its caller, concatenated in order, are S.
C1_RoundTripEveryInput == Finished => Flatten(result) = input

\* C1, amended: for every input S on which tokenize returns (some rule
\* matches at every offset the scan reaches) and every configuration, the
\* texts of the tokens returned, concatenated in order, are S.
C1_RoundTrip == status = "done" => Flatten(result) = input

\* a call that returned three tokens, the middle one white space
C1_Witness ==
    /\ status = "done"
    /\ Len(result) = 3
    /\ result[2].type \in {"WS", "NL"}
    /\ result[1].type # result[3].type

IsNumericLiteral(s) ==
    \/ RunEnd(s, 0, Digit) > 0
         /\ ExponentEnd(s, FractionEnd(s, RunEnd(s, 0, Digit))) = Len(s)
    \/ StartsWith(s, 0, <<"0", "x">>) /\ Len(s) > 2
         /\ RunEnd(s, 2, HexDigit) = Len(s)
    \/ StartsWith(s, 0, <<"0", "b">>) /\ Len(s) > 2
         /\ RunEnd(s, 2, BinDigit) = Len(s)

\* offsets i to j of s lie between white space or the ends of s
BetweenWhiteSpace(s, i, j) ==
    /\ i = 0 \/ At(s, i - 1) \in {" ", "\t", "\n"}
    /\ j = Len(s) \/ At(s, j) \in {" ", "\t", "\n"}

\* C5: a numeric literal that is not adjacent to word characters (here: that
\* stands between white space or the ends of the input) and starts where a
\* token starts, at offset 0 or after any preceding tokens, is emitted as
\* exactly one number token whose text is the whole literal.
C5_NumberWhereverItStarts ==
    \A k \in DOMAIN tokens :
        \A j \in (tokens[k].offset + 1)..Len(buffer) :
            (/\ BetweenWhiteSpace(buffer, tokens[k].offset, j)
             /\ IsNumericLiteral(Slice(buffer, tokens[k].offset, j)))
                => tokens[k] = Token("NUMBER", buffer, tokens[k].offset, j)

\* where the block comment opened before offset k ends according to C6: after
\* the first closer, or at the end of the input
RECURSIVE ThroughCloser(_, _)
ThroughCloser(s, k) ==
    IF StartsWith(s, k, <<"*", "/">>) THEN k + 2
    ELSE IF k >= Len(s) THEN Len(s)
    ELSE ThroughCloser(s, k + 1)

\* C6: whenever the opener of a block comment begins at the scan position, at
\* offset 0 or later, the token emitted there is a block comment that extends
\* through the first closer after it, or to the end of the input; the scan
\* never fails at an opener.
C6_BlockCommentAtAnyOffset ==
    /\ \A k \in DOMAIN tokens :
          StartsWith(buffer, tokens[k].offset, <<"/", "*">>) =>
              tokens[k] = Token("BLOCK_COMMENT", buffer, tokens[k].offset,
                                ThroughCloser(buffer, tokens[k].offset + 2))
    /\ status = "error" => ~StartsWith(buffer, lexIndex, <<"/", "*">>)

\* s is one of the prefixes followed by a non-empty identifier-like suffix
IsNamedPlaceholder(prefixes, s) ==
    \E k \in DOMAIN prefixes :
        /\ StartsWith(s, 0, prefixes[k])
        /\ Len(s) > Len(prefixes[k])
        /\ RunEnd(s, Len(prefixes[k]), NamedSuffixChars) = Len(s)

\* C7: for every configured named-placeholder prefix p and every non-empty
\* suffix s over [a-zA-Z0-9._$], tokenizing p followed by s yields a single
\* named-placeholder token whose text is p followed by s.
C7_NamedPlaceholderOneToken ==
    (Finished /\ IsNamedPlaceholder(cfg.namedPlaceholderTypes, input)) =>
        /\ status = "done"
        /\ result = <<Token("NAMED_PLACEHOLDER", input, 0, Len(input))>>

\* s is an identifier that begins with the letters of CASE or END, in any
\* letter case, and goes on
BeginsWithCaseOrEnd(s) ==
    /\ Len(s) > 0
    /\ RunEnd(s, 0, WordChar) = Len(s)
    /\ \/ StartsWithNoCase(s, 0, <<"c", "a", "s", "e">>) /\ Len(s) > 4
       \/ StartsWithNoCase(s, 0, <<"e", "n", "d">>) /\ Len(s) > 3

\* C10: CASE and END are recognised only as whole words: an identifier that
\* merely begins with those letters is emitted as one word token.
C10_CaseEndWholeWords ==
    (Finished /\ BeginsWithCaseOrEnd(input)) =>
        /\ status = "done"
        /\ result = <<Token("WORD", input, 0, Len(input))>>

(***************************************************************************)
(* Properties of Params.get.                                               *)
(***************************************************************************)
\* v[n] of an ordered sequence: undefined past its end
ElementAt(v, n) == IF n < Len(v) THEN v[n + 1] ELSE Undefined

\* C2: for a resolver constructed with an ordered sequence V and queried only
\* with keyless lookups, the n-th call of get returns V[n-1] when
\* n <= length(V) and undefined when n > length(V).
C2_PositionalInOrder ==
    (params.kind = "array" /\ keyless /\ calls >= 1) =>
        last.ret = (IF calls <= Len(params.list)
                    THEN params.list[calls] ELSE Undefined)

\* the third keyless lookup on a sequence of two values
C2_Witness ==
    /\ params.kind = "array"
    /\ Len(params.list) = 2
    /\ keyless
    /\ calls = 3
    /\ last.ret = Undefined

\* C3 as stated: for a resolver constructed with a mapping M, get with a key
\* k returns M[k] when k is a key of M and undefined when it is not, however
\* many lookups were made before.
C3_AnyKeyByName ==
    (params.kind = "object" /\ calls >= 1 /\ last.key # NoKey) =>
        last.ret = (IF HasKey(params, last.key)
                    THEN params.map[last.key] ELSE Undefined)

\* C3, amended: for a resolver constructed with a mapping M, get with a
\* non-empty key k returns M[k] when k is a key of M and undefined when it is
\* not, however many lookups were made before.
C3_NonEmptyKeyByName ==
    (params.kind = "object" /\ calls >= 1 /\ last.key \notin {NoKey, ""}) =>
        last.ret = (IF HasKey(params, last.key)
                    THEN params.map[last.key] ELSE Undefined)

\* a named lookup of a key the mapping holds, made after the cursor has moved
C3_Witness ==
    /\ params.kind = "object"
    /\ last.key = "foo"
    /\ HasKey(params, "foo")
    /\ ~HasKey(params, "bar")
    /\ last.at >= 2
    /\ last.ret = params.map["foo"]

\* C4 as stated: when the ParamSource is an ordered sequence, every call of
\* get, a call that carries a key included, returns the element at the
\* cursor and then advances the cursor by one.
C4_SequenceAlwaysPositional ==
    (params.kind = "array" /\ calls >= 1) =>
        /\ last.ret = ElementAt(params.list, last.at)
        /\ index = last.at + 1

\* C4, amended: when the ParamSource is an ordered sequence, a call of get
\* with no key or an empty key returns the element at the cursor and then
\* advances the cursor by one; a call with a non-empty key leaves the cursor
\* where it is and returns the element whose index the key spells, or
\* undefined when the key spells no index of the sequence.
C4_SequenceByCursorOrKey ==
    (params.kind = "array" /\ calls >= 1) =>
        IF last.key \in {NoKey, ""}
        THEN /\ last.ret = ElementAt(params.list, last.at)
             /\ index = last.at + 1
        ELSE /\ index = last.at
             /\ \A n \in 0..9 :
                    last.key = Decimal[n + 1] =>
                        last.ret = ElementAt(params.list, n)
             /\ last.key \notin Range(Decimal) => last.ret = Undefined

\* a lookup with key "1" on a sequence of two values, the cursor at 0
C4_Witness ==
    /\ params.kind = "array"
    /\ Len(params.list) = 2
    /\ params.list[1] # params.list[2]
    /\ last.key = "1"
    /\ last.at = 0
    /\ index = 0
    /\ last.ret = params.list[2]

\* C9 as stated: the cursor is 0 after construction and, on any ParamSource
\* (mapping, ordered sequence or none), never decreases and is never reset:
\* every keyless lookup adds exactly one, every other lookup leaves it.
C9_CursorCountsKeyless ==
    /\ calls = 0 => index = 0
    /\ calls >= 1 =>
          index = last.at + (IF last.key = NoKey THEN 1 ELSE 0)

\* C9, amended: the cursor is 0 after construction and never decreases and
\* is never reset: a lookup with no key or an empty key, made on a resolver
\* that holds a ParamSource (mapping or ordered sequence), adds exactly one;
\* every other lookup, any lookup on a resolver without a ParamSource
\* included, leaves it.
C9_CursorCountsPositional ==
    /\ calls = 0 => index = 0
    /\ calls >= 1 =>
          index = last.at + (IF params.kind # "none" /\ last.key \in {NoKey, ""}
                             THEN 1 ELSE 0)

\* three lookups on a mapping, two of them positional, the last one named
C9_Witness ==
    /\ params.kind = "object"
    /\ calls = 3
    /\ index = 2
    /\ last.key = "bar"
    /\ last.at = 2

=============================================================================
